---- MODULE Spec2Model ----
(***************************************************************************)
(* Model of the Feishu approval webhook (src/main.py) and of the approval  *)
(* handler it dispatches to (src/handlers/approval.py).                    *)
(*                                                                         *)
(* The service runs on one asyncio event loop: code between two awaits on  *)
(* real I/O is one atomic step.  The steps are                             *)
(*   feishu_webhook         the whole handler after the body was read      *)
(*   process_approval_event from its start to the await of the instance    *)
(*                          detail fetch inside _process_approval          *)
(*   _process_approval      from the fetch result to the await of the      *)
(*                          attachment download                            *)
(*   _process_approval      from the download result to its return (the    *)
(*                          email sender does not await anything)          *)
(* The form pass of _process_approval (title and amount of the email) is   *)
(* a pure computation on the fetched form; it is modelled on its own, one  *)
(* loop iteration per step (ScanField, FinishScan).                        *)
(*                                                                         *)
(* Absent JSON keys, None and the empty string are all written "": the     *)
(* code reads these fields through `x or y` or `if x`.  For `challenge`,   *)
(* tested with `in`, "" stands for the absent key.  Request bodies are     *)
(* malformed JSON or JSON objects whose header, event and event.object are *)
(* objects when present.                                                   *)
(***************************************************************************)
EXTENDS Naturals, Integers, Sequences, FiniteSets, Bags, TLC

VARIABLES
    settings,             \* config.py Settings: the fields the webhook and the router read
    processed_events,     \* main.py _processed_events
    processed_instances,  \* main.py _processed_instances
    units,                \* bag of background tasks that are scheduled or awaiting I/O
    finished,             \* set of background tasks that returned, with their outcome
    fetches,              \* bag: one entry per call of get_approval_instance
    emails,               \* bag: one entry per call of send_with_attachments that returned
    last_req,             \* the request of the latest webhook call
    last_resp,            \* the response of the latest webhook call
    deliveries,           \* number of webhook calls so far
    recent_events,        \* history of the direct store calls: the latest KEEP_RECENT
                          \* insertions into _processed_events, oldest first
    recent_instances,     \* the same for _processed_instances
    evicted_events,       \* history: ids that a cleanup removed from _processed_events
    evicted_instances,    \* history: codes that a cleanup removed from _processed_instances
    marked_ever,          \* history: every code check_and_mark_instance added, with the
                          \* request whose background task added it
    store_ret,            \* the latest direct call of a dedup store function, with its result
    extraction            \* the locals of the form pass of _process_approval: the form,
                          \* the instance, the loop position, approval_title,
                          \* approval_amount and expense_contents

vars == <<settings, processed_events, processed_instances, units, finished, fetches,
          emails, last_req, last_resp, deliveries, recent_events, recent_instances,
          evicted_events, evicted_instances, marked_ever, store_ret, extraction>>

(***************************************************************************)
(* Bounds.  MAX_PROCESSED_EVENTS and KEEP_RECENT stand for the 10000 and   *)
(* 5000 of main.py, scaled down so that a cleanup happens within a few     *)
(* insertions; KEEP_RECENT + 1 <= MAX_PROCESSED_EVENTS as in the source.   *)
(***************************************************************************)
MAX_PROCESSED_EVENTS == 2

KEEP_RECENT == 1

MaxDeliveries == 3

MaxStoreCalls == 6

\* The longest form the extractor is run on.
MaxFields == 3

(***************************************************************************)
(* Requests.  A request is the decoded body plus the three signature       *)
(* headers.  signature is "good" when it ends with the HMAC-SHA256 hex     *)
(* digest of timestamp, nonce and raw body under the signing secret, and   *)
(* "bad" when it is present and does not.                                  *)
(***************************************************************************)
VERIFICATION_TOKEN == "tok"

BaseReq ==
    [ json_ok |-> TRUE,
      timestamp |-> TRUE, nonce |-> TRUE, signature |-> "good",
      token |-> "",
      type |-> "", challenge |-> "",
      event_type |-> "", event_id |-> "", uuid |-> "",
      status |-> "", instance_status |-> "", object_status |-> "",
      instance_code |-> "", approval_code |-> "", object_instance_code |-> "" ]

NoReq == [BaseReq EXCEPT !.json_ok = FALSE, !.signature = "", !.timestamp = FALSE,
                         !.nonce = FALSE]

\* Python's `a or b` on strings.
Or(a, b) == IF a # "" THEN a ELSE b

Min(a, b) == IF a <= b THEN a ELSE b

\* The last n elements of a sequence (Python's seq[-n:], n > 0).
LastN(seq, n) == SubSeq(seq, Len(seq) - Min(n, Len(seq)) + 1, Len(seq))

Range(seq) == {seq[i] : i \in DOMAIN seq}

(***************************************************************************)
(* Admission gate: the pure parts of main.py.                              *)
(***************************************************************************)
\* Mutant of verify_signature: missing headers are answered like a mismatch.
verify_signature_missing_as_403(req) ==
    IF ~settings.feishu_signing_secret THEN 0
    ELSE IF ~(req.timestamp /\ req.nonce /\ req.signature = "good") THEN 403
    ELSE 0

\* verify_signature: 0 when the request passes, else the HTTP status raised.
verify_signature(req) ==
    IF ~settings.feishu_signing_secret THEN 0
    ELSE IF ~(req.timestamp /\ req.nonce /\ req.signature # "") THEN 400
    ELSE IF req.signature # "good" THEN 403
    ELSE 0

\* Mutant of verify_token: the token is never compared.
verify_token_off(req) == 0

\* verify_token: 0 when the request passes, else the HTTP status raised.
verify_token(req) ==
    IF req.token # "" /\ req.token # VERIFICATION_TOKEN THEN 403 ELSE 0

\* Mutant of IsChallenge: the challenge marker is misspelt.
IsChallengeTypo(req) == req.type = "url_verify" /\ req.challenge # ""

\* feishu_webhook, the test of step 3.
IsChallenge(req) == req.type = "url_verification" /\ req.challenge # ""

\* The f-string f"{instance_code}:{status}" of get_event_id.
Compose(code, status) ==
    CASE code = ""   /\ status = ""         -> ":"
      [] code = ""   /\ status = "APPROVED" -> ":APPROVED"
      [] code = ""   /\ status = "REJECTED" -> ":REJECTED"
      [] code = "i1" /\ status = ""         -> "i1:"
      [] code = "i1" /\ status = "APPROVED" -> "i1:APPROVED"
      [] code = "i1" /\ status = "REJECTED" -> "i1:REJECTED"
      [] code = "i2" /\ status = ""         -> "i2:"
      [] code = "i2" /\ status = "APPROVED" -> "i2:APPROVED"
      [] code = "i2" /\ status = "REJECTED" -> "i2:REJECTED"
      [] code = "i3" /\ status = ""         -> "i3:"
      [] code = "i3" /\ status = "APPROVED" -> "i3:APPROVED"
      [] code = "i3" /\ status = "REJECTED" -> "i3:REJECTED"

\* get_event_id
get_event_id(req) ==
    IF req.event_id # "" THEN req.event_id
    ELSE IF req.uuid # "" THEN req.uuid
    ELSE Compose(Or(req.instance_code, Or(req.approval_code, req.object_instance_code)),
                 Or(req.status, req.instance_status))

\* get_instance_code
get_instance_code(req) == Or(req.instance_code, req.object_instance_code)

\* The status expression of process_approval_event.
EventStatus(req) == Or(req.status, Or(req.instance_status, req.object_status))

(***************************************************************************)
(* Approval handler: the filters of handle_event.                          *)
(***************************************************************************)
\* "approval_instance" in event_type, over the event types of the model.
ContainsApprovalInstance(event_type) ==
    event_type \in {"approval_instance", "approval_instance_v2"}

\* handle_event, event type filter: TRUE when the event is kept.
RelevantType(req) ==
    ~(req.event_type # "" /\ ~ContainsApprovalInstance(req.event_type))

\* handle_event, the status expression.
HandlerStatus(req) == Or(req.status, Or(req.instance_status, req.object_status))

\* handle_event, the instance code expression.
HandlerInstanceCode(req) ==
    Or(req.instance_code, Or(req.approval_code, req.object_instance_code))

\* handle_event up to the call of _process_approval: the instance code to
\* process, or "" when one of the three filters returns False.
handle_event(req) ==
    IF ~RelevantType(req) THEN ""
    ELSE IF HandlerStatus(req) # "APPROVED" THEN ""
    ELSE HandlerInstanceCode(req)

(***************************************************************************)
(* Dedup store.                                                            *)
(***************************************************************************)
\* set(list(s)[-5000:]): a set has no insertion order, the list is in hash
\* order, so which members survive is not determined by the program text.
Survivors(s) ==
    {t \in SUBSET s : Cardinality(t) = Min(KEEP_RECENT, Cardinality(s))}

\* Mutant of Cleanup: the cap is tested with > instead of >=.
CleanupOffByOne(s) ==
    IF Cardinality(s) > MAX_PROCESSED_EVENTS THEN Survivors(s) ELSE {s}

\* The cleanup of is_duplicate_event / check_and_mark_instance: the sets the
\* store can hold right before the add.
Cleanup(s) ==
    IF Cardinality(s) >= MAX_PROCESSED_EVENTS THEN Survivors(s) ELSE {s}

\* Mutant of is_duplicate_event: a first-seen id is reported but not recorded.
is_duplicate_event_no_add(event_id, dup) ==
    /\ dup = (event_id \in processed_events)
    /\ UNCHANGED <<processed_events, evicted_events>>

\* Mutant of is_duplicate_event: the id is recorded but every call reports
\* first-seen.
is_duplicate_event_always_new(event_id, dup) ==
    /\ dup = FALSE
    /\ \E kept \in (IF event_id \in processed_events THEN {processed_events}
                     ELSE Cleanup(processed_events)) :
          /\ processed_events' = kept \cup {event_id}
          /\ evicted_events' = evicted_events \cup (processed_events \ kept)

\* is_duplicate_event(event_id) returning `dup`.
is_duplicate_event(event_id, dup) ==
    /\ dup = (event_id \in processed_events)
    /\ IF dup
       THEN UNCHANGED <<processed_events, evicted_events>>
       ELSE \E kept \in Cleanup(processed_events) :
              /\ processed_events' = kept \cup {event_id}
              /\ evicted_events' = evicted_events \cup (processed_events \ kept)

\* check_and_mark_instance(instance_code) returning `new`.
check_and_mark_instance(instance_code, new) ==
    /\ new = (instance_code \notin processed_instances)
    /\ IF ~new
       THEN UNCHANGED <<processed_instances, evicted_instances>>
       ELSE \E kept \in Cleanup(processed_instances) :
              /\ processed_instances' = kept \cup {instance_code}
              /\ evicted_instances' = evicted_instances \cup (processed_instances \ kept)

(***************************************************************************)
(* feishu_webhook                                                          *)
(***************************************************************************)
Reject(code) == [status |-> code, kind |-> "error", value |-> ""]

ChallengeResp(value) == [status |-> 200, kind |-> "challenge", value |-> value]

OkResp == [status |-> 200, kind |-> "ok", value |-> "true"]

NoResp == [status |-> 0, kind |-> "", value |-> ""]

\* Mutant of Admission: the challenge is answered before the token is compared.
Admission_challenge_before_token(req) ==
    IF ~req.json_ok THEN Reject(400)
    ELSE IF verify_signature(req) # 0 THEN Reject(verify_signature(req))
    ELSE IF IsChallenge(req) THEN ChallengeResp(req.challenge)
    ELSE IF verify_token(req) # 0 THEN Reject(verify_token(req))
    ELSE NoResp

\* Steps 1-3 of feishu_webhook in the order of the code: the response that
\* ends the request there, or NoResp when the request goes on to step 4.
Admission(req) ==
    IF ~req.json_ok THEN Reject(400)
    ELSE IF verify_signature(req) # 0 THEN Reject(verify_signature(req))
    ELSE IF verify_token(req) # 0 THEN Reject(verify_token(req))
    ELSE IF IsChallenge(req) THEN ChallengeResp(req.challenge)
    ELSE NoResp

\* background_tasks.add_task(process_approval_event, body).  first_seen is
\* history: whether the event id was absent from _processed_events on arrival.
NewUnit(req) ==
    [ req |-> req, pc |-> "scheduled", code |-> "", approval_name |-> "",
      target_email |-> "", refs |-> 0,
      first_seen |-> get_event_id(req) \notin processed_events ]

\* Steps 4-5 of feishu_webhook.
Dispatch(req) ==
    \E dup \in BOOLEAN :
       /\ is_duplicate_event(get_event_id(req), dup)
       /\ units' = IF dup THEN units ELSE units (+) SetToBag({NewUnit(req)})
       /\ last_resp' = OkResp

\* Mutant of feishu_webhook: the event id is recorded before the checks.
feishu_webhook_records_rejected(req) ==
    /\ deliveries < MaxDeliveries
    /\ deliveries' = deliveries + 1
    /\ last_req' = req
    /\ IF Admission(req) # NoResp
       THEN /\ last_resp' = Admission(req)
            /\ processed_events' = processed_events \cup {get_event_id(req)}
            /\ UNCHANGED <<evicted_events, units>>
       ELSE Dispatch(req)
    /\ UNCHANGED <<settings, processed_instances, evicted_instances, marked_ever,
                   finished, fetches, emails, recent_events, recent_instances,
                   store_ret, extraction>>

feishu_webhook(req) ==
    /\ deliveries < MaxDeliveries
    /\ deliveries' = deliveries + 1
    /\ last_req' = req
    /\ IF Admission(req) # NoResp
       THEN /\ last_resp' = Admission(req)
            /\ UNCHANGED <<processed_events, evicted_events, units>>
       ELSE Dispatch(req)
    /\ UNCHANGED <<settings, processed_instances, evicted_instances, marked_ever,
                   finished, fetches, emails, recent_events, recent_instances,
                   store_ret, extraction>>

(***************************************************************************)
(* process_approval_event and ApprovalHandler                              *)
(***************************************************************************)
\* The background task of u returned.  The record keeps what _process_approval
\* had read when it returned: the approval name once the fetch answered, the
\* number of references once the extractor ran, the number of downloaded
\* attachments once the download answered ("" and 0 before that).
FinishWith(u, outcome, approval_name, refs, downloaded) ==
    finished' = finished \cup {[event_id |-> get_event_id(u.req), outcome |-> outcome,
                                approval_name |-> approval_name, refs |-> refs,
                                downloaded |-> downloaded]}

Finish(u, outcome) == FinishWith(u, outcome, "", 0, 0)

\* process_approval_event, the guard of the instance dedup.
NeedsInstanceCheck(req) == EventStatus(req) = "APPROVED" /\ get_instance_code(req) # ""

\* handle_event as called by process_approval_event, up to the await of
\* get_approval_instance.
EnterHandler(u) ==
    LET code == handle_event(u.req) IN
    IF code = ""
    THEN /\ units' = units (-) SetToBag({u})
         /\ Finish(u, "dropped")
         /\ UNCHANGED fetches
    ELSE /\ units' = (units (-) SetToBag({u}))
                        (+) SetToBag({[u EXCEPT !.pc = "fetching", !.code = code]})
         /\ fetches' = fetches (+) SetToBag({[req |-> u.req, code |-> code,
                                               first_seen |-> u.first_seen]})
         /\ UNCHANGED finished

\* process_approval_event, from the start of the background task to its
\* first await on I/O.
process_approval_event(u) ==
    /\ u.pc = "scheduled"
    /\ IF NeedsInstanceCheck(u.req)
       THEN \E new \in BOOLEAN :
              /\ check_and_mark_instance(get_instance_code(u.req), new)
              /\ IF new
                 THEN /\ EnterHandler(u)
                      /\ marked_ever' = marked_ever \cup
                            {[code |-> get_instance_code(u.req), req |-> u.req]}
                 ELSE /\ units' = units (-) SetToBag({u})
                      /\ Finish(u, "skipped")
                      /\ UNCHANGED <<fetches, marked_ever>>
       ELSE /\ EnterHandler(u)
            /\ UNCHANGED <<processed_instances, evicted_instances, marked_ever>>
    /\ UNCHANGED <<settings, processed_events, evicted_events, emails, last_req,
                   last_resp, deliveries, recent_events, recent_instances, store_ret, extraction>>

\* Mutant of get_target_email: a name without an entry falls back to the
\* payment address.
get_target_email_default_route(approval_name) ==
    CASE approval_name = "expense_reimbursement" -> settings.email_expense
      [] OTHER -> settings.email_payment_sweden_shic

\* ApprovalHandler.APPROVAL_EMAIL_ATTRS and _get_target_email: the
\* destination of an approval name, "" for None.  The two Chinese keys of
\* the table are written in ASCII: "expense_reimbursement" is the expense
\* reimbursement category (email_expense), "payment_sweden_shic" the
\* payment category (email_payment_sweden_shic); "leave" has no entry.
get_target_email(approval_name) ==
    CASE approval_name = "expense_reimbursement" -> settings.email_expense
      [] approval_name = "payment_sweden_shic" -> settings.email_payment_sweden_shic
      [] OTHER -> ""

\* What get_approval_instance can answer: it raises, or it returns an
\* instance; refs is the number of attachment references in its form.
ApprovalNames == {"expense_reimbursement", "payment_sweden_shic", "leave"}

FetchResults(names, refs) ==
    {[raised |-> TRUE, approval_name |-> "", refs |-> 0]}
      \cup [raised : {FALSE}, approval_name : names, refs : refs]

\* Mutant of FetchDone: a task whose fetch raised is logged and kept for
\* another attempt.
FetchDone_retry(u, result) ==
    /\ u.pc = "fetching"
    /\ IF result.raised
       THEN /\ units' = units
            /\ Finish(u, "failed_fetch")
       ELSE IF get_target_email(result.approval_name) = ""
       THEN /\ units' = units (-) SetToBag({u})
            /\ FinishWith(u, "noop", result.approval_name, 0, 0)
       ELSE IF result.refs = 0
       THEN /\ units' = units (-) SetToBag({u})
            /\ FinishWith(u, "noop", result.approval_name, 0, 0)
       ELSE /\ units' = (units (-) SetToBag({u}))
                           (+) SetToBag({[u EXCEPT
                                  !.pc = "downloading",
                                  !.approval_name = result.approval_name,
                                  !.target_email = get_target_email(result.approval_name),
                                  !.refs = result.refs]})
            /\ UNCHANGED finished
    /\ UNCHANGED <<settings, processed_events, processed_instances, fetches, emails,
                   last_req, last_resp, deliveries, recent_events, recent_instances,
                   evicted_events, evicted_instances, marked_ever, store_ret, extraction>>

\* _process_approval from the result of get_approval_instance to the await
\* of download_attachments: the routing check, the form pass (it changes
\* no state of the service; see scan_field and final_title) and the
\* attachment extractor.
FetchDone(u, result) ==
    /\ u.pc = "fetching"
    /\ IF result.raised
       THEN /\ units' = units (-) SetToBag({u})
            /\ Finish(u, "failed_fetch")
       ELSE IF get_target_email(result.approval_name) = ""
       THEN /\ units' = units (-) SetToBag({u})
            /\ FinishWith(u, "noop", result.approval_name, 0, 0)
       ELSE IF result.refs = 0
       THEN /\ units' = units (-) SetToBag({u})
            /\ FinishWith(u, "noop", result.approval_name, 0, 0)
       ELSE /\ units' = (units (-) SetToBag({u}))
                           (+) SetToBag({[u EXCEPT
                                  !.pc = "downloading",
                                  !.approval_name = result.approval_name,
                                  !.target_email = get_target_email(result.approval_name),
                                  !.refs = result.refs]})
            /\ UNCHANGED finished
    /\ UNCHANGED <<settings, processed_events, processed_instances, fetches, emails,
                   last_req, last_resp, deliveries, recent_events, recent_instances,
                   evicted_events, evicted_instances, marked_ever, store_ret, extraction>>

\* What download_attachments can answer: it raises, or it returns the
\* attachments whose content it got (their number, at most the references).
DownloadResults(u) == [raised : {FALSE}, downloaded : 0..u.refs]
                        \cup {[raised |-> TRUE, downloaded |-> 0]}

\* _process_approval from the result of download_attachments to its return;
\* send_raised: resend.Emails.send raises.
DownloadDone(u, result, send_raised) ==
    /\ u.pc = "downloading"
    /\ units' = units (-) SetToBag({u})
    /\ IF result.raised
       THEN FinishWith(u, "failed_download", u.approval_name, u.refs, 0)
            /\ UNCHANGED emails
       ELSE IF result.downloaded = 0
       THEN FinishWith(u, "noop", u.approval_name, u.refs, 0) /\ UNCHANGED emails
       ELSE IF send_raised
       THEN FinishWith(u, "failed_send", u.approval_name, u.refs, result.downloaded)
            /\ UNCHANGED emails
       ELSE /\ emails' = emails (+) SetToBag({[to |-> u.target_email, code |-> u.code,
                                                approval_name |-> u.approval_name,
                                                refs |-> u.refs,
                                                attachments |-> result.downloaded,
                                                event_id |-> get_event_id(u.req)]})
            /\ FinishWith(u, "sent", u.approval_name, u.refs, result.downloaded)
    /\ UNCHANGED <<settings, processed_events, processed_instances, fetches,
                   last_req, last_resp, deliveries, recent_events, recent_instances,
                   evicted_events, evicted_instances, marked_ever, store_ret, extraction>>

(***************************************************************************)
(* Form extractor: step 3 of _process_approval, the pass over the form     *)
(* that gives the title and the amount of the email.                       *)
(*                                                                         *)
(* The Chinese names of the source are written in ASCII: "title_name" and  *)
(* "payment_reason" are the two title names, "amount" and "payment_amount" *)
(* the two amount names, "expense_content" the line-item description name. *)
(* A field is a JSON object; its ext is a dict ("dict"), a list ("list")   *)
(* or absent ("none"); currency "" stands for the absent key; the value of *)
(* a fieldList, a list of rows of cell objects, is written rows.           *)
(***************************************************************************)
\* str.strip() over the texts of the model: only the three listed texts
\* begin or end with whitespace.
strip(text) ==
    CASE text = "  "          -> ""
      [] text = " Q1 travel " -> "Q1 travel"
      [] text = " taxi "      -> "taxi"
      [] OTHER                -> text

\* The sumItems texts of the model.
SumsSEK == "[{\"value\":\"100\",\"currency\":\"SEK\"}]"

SumsTwo == "[{\"value\":\"100\",\"currency\":\"SEK\"},{\"value\":\"20\",\"currency\":\"EUR\"}]"

BadJson == "[{\"value\":"

\* json.loads over the sumItems texts: ok is FALSE when it raises
\* JSONDecodeError, which it does on "" and on BadJson.
json_loads(text) ==
    CASE text = SumsSEK -> [ok |-> TRUE, sums |-> <<[value |-> "100", currency |-> "SEK"]>>]
      [] text = SumsTwo -> [ok |-> TRUE, sums |-> <<[value |-> "100", currency |-> "SEK"],
                                                    [value |-> "20", currency |-> "EUR"]>>]
      [] text = "[]"    -> [ok |-> TRUE, sums |-> <<>>]
      [] OTHER          -> [ok |-> FALSE, sums |-> <<>>]

\* sep.join(parts)
RECURSIVE join(_, _)
join(sep, parts) ==
    IF parts = <<>> THEN ""
    ELSE IF Len(parts) = 1 THEN parts[1]
    ELSE parts[1] \o sep \o join(sep, Tail(parts))

\* The first branch of the loop body.
is_title_field(field) ==
    field.name \in {"title_name", "payment_reason"} /\ field.type \in {"input", "textarea"}

\* The second branch of the loop body.
is_amount_field(field) ==
    field.name \in {"amount", "payment_amount"} /\ field.type = "amount"

\* f"{amount_value} {currency}" of an amount field.
amount_text(field) ==
    field.value \o " " \o (IF field.ext.kind = "dict" /\ field.ext.currency # ""
                             THEN field.ext.currency ELSE "SEK")

\* The index of the item at which `for item in ext` breaks: the first item
\* of type amount, 0 when the loop ends without one.
first_amount_item(items) ==
    IF \E i \in 1..Len(items) : items[i].type = "amount"
    THEN CHOOSE i \in 1..Len(items) :
            /\ items[i].type = "amount"
            /\ \A j \in 1..(i - 1) : items[j].type # "amount"
    ELSE 0

\* [f"{s.get('value', '')} {s.get('currency', '')}" for s in sums]
sum_parts(sums) == [i \in 1..Len(sums) |-> sums[i].value \o " " \o sums[i].currency]

\* approval_amount after the block `if not approval_amount:` of a fieldList,
\* entered with the empty amount.
fieldList_amount(field) ==
    IF field.ext.kind # "list" THEN ""
    ELSE LET i == first_amount_item(field.ext.items) IN
         IF i = 0 THEN ""
         ELSE LET item == field.ext.items[i] IN
              IF item.sumItems = "" THEN ""
              ELSE IF json_loads(item.sumItems).ok
                   THEN join(", ", sum_parts(json_loads(item.sumItems).sums))
                   ELSE item.value

\* The cells of the rows, row by row.
RECURSIVE cells_of(_)
cells_of(rows) == IF rows = <<>> THEN <<>> ELSE Head(rows) \o cells_of(Tail(rows))

is_content_cell(cell) ==
    cell.name = "expense_content" /\ cell.type = "input" /\ strip(cell.value) # ""

\* What the scan of the rows of a fieldList appends to expense_contents.
row_contents(rows) ==
    LET cells == SelectSeq(cells_of(rows), is_content_cell)
    IN  [i \in 1..Len(cells) |-> strip(cells[i].value)]

\* One iteration of `for field in form_data`.
scan_field(st, field) ==
    IF is_title_field(field)
    THEN [st EXCEPT !.approval_title = IF @ = "" THEN strip(field.value) ELSE @]
    ELSE IF is_amount_field(field)
    THEN [st EXCEPT !.approval_amount = amount_text(field)]
    ELSE IF field.type = "fieldList"
    THEN [st EXCEPT !.approval_amount = IF @ = "" THEN fieldList_amount(field) ELSE @,
                    !.expense_contents = @ \o row_contents(field.rows)]
    ELSE st

\* Mutant of final_title: a title found in a title field is kept.
final_title_keeps_title_field(st) ==
    IF st.approval_title # "" THEN st.approval_title
    ELSE IF st.expense_contents # <<>> THEN join("-", st.expense_contents)
    ELSE IF st.serial_number.present THEN st.serial_number.value
    ELSE st.instance_code

\* The title after the loop; instance.get("serial_number", instance_code).
final_title(st) ==
    IF st.expense_contents # <<>> THEN join("-", st.expense_contents)
    ELSE IF st.approval_title = ""
    THEN IF st.serial_number.present THEN st.serial_number.value ELSE st.instance_code
    ELSE st.approval_title

\* The loop body runs on the field at the loop position.
ScanField ==
    /\ ~extraction.done
    /\ extraction.pos <= Len(extraction.form)
    /\ extraction' = [scan_field(extraction, extraction.form[extraction.pos])
                        EXCEPT !.pos = extraction.pos + 1]
    /\ UNCHANGED <<settings, processed_events, processed_instances, units, finished,
                   fetches, emails, last_req, last_resp, deliveries, recent_events,
                   recent_instances, evicted_events, evicted_instances, marked_ever,
                   store_ret>>

\* The statements after the loop.
FinishScan ==
    /\ ~extraction.done
    /\ extraction.pos > Len(extraction.form)
    /\ extraction' = [extraction EXCEPT !.approval_title = final_title(extraction),
                                        !.done = TRUE]
    /\ UNCHANGED <<settings, processed_events, processed_instances, units, finished,
                   fetches, emails, last_req, last_resp, deliveries, recent_events,
                   recent_instances, evicted_events, evicted_instances, marked_ever,
                   store_ret>>

(***************************************************************************)
(* Direct calls of the dedup store functions.                              *)
(***************************************************************************)
StoreIds == {"e1", "e2", "e3", "e4"}

StoreCodes == {"i1", "i2", "i3", "i4"}

SeenEvent(id) ==
    /\ deliveries < MaxStoreCalls
    /\ deliveries' = deliveries + 1
    /\ \E dup \in BOOLEAN :
          /\ is_duplicate_event(id, dup)
          /\ store_ret' = [op |-> "is_duplicate_event", arg |-> id, ret |-> dup]
          /\ recent_events' = IF dup THEN recent_events
                               ELSE LastN(Append(recent_events, id), KEEP_RECENT)
    /\ UNCHANGED <<settings, processed_instances, units, finished, fetches, emails,
                   last_req, last_resp, recent_instances, evicted_instances, marked_ever,
                   extraction>>

MarkNewInstance(code) ==
    /\ deliveries < MaxStoreCalls
    /\ deliveries' = deliveries + 1
    /\ \E new \in BOOLEAN :
          /\ check_and_mark_instance(code, new)
          /\ store_ret' = [op |-> "check_and_mark_instance", arg |-> code, ret |-> new]
          /\ recent_instances' = IF new
                                  THEN LastN(Append(recent_instances, code), KEEP_RECENT)
                                  ELSE recent_instances
          /\ marked_ever' = IF new THEN marked_ever \cup {[code |-> code, req |-> NoReq]}
                             ELSE marked_ever
    /\ UNCHANGED <<settings, processed_events, units, finished, fetches, emails,
                   last_req, last_resp, recent_events, evicted_events, extraction>>

(***************************************************************************)
(* Specifications.                                                         *)
(***************************************************************************)
NoCall == [op |-> "", arg |-> "", ret |-> FALSE]

\* The form pass at its start, on `form` of an instance with that serial number.
StartScan(form, serial_number) ==
    [ form |-> form, serial_number |-> serial_number, instance_code |-> "i1", pos |-> 1,
      approval_title |-> "", approval_amount |-> "", expense_contents |-> <<>>,
      done |-> FALSE ]

NoSerial == [present |-> FALSE, value |-> ""]

\* The module state of main.py after import, and no task.
EmptyState ==
    /\ processed_events = {}
    /\ processed_instances = {}
    /\ units = EmptyBag
    /\ finished = {}
    /\ fetches = EmptyBag
    /\ emails = EmptyBag
    /\ last_req = NoReq
    /\ last_resp = NoResp
    /\ deliveries = 0
    /\ recent_events = <<>>
    /\ recent_instances = <<>>
    /\ evicted_events = {}
    /\ evicted_instances = {}
    /\ marked_ever = {}
    /\ store_ret = NoCall

InitStores ==
    /\ EmptyState
    /\ extraction = StartScan(<<>>, NoSerial)

\* An approved approval_instance event of instance `code` with event id `id`.
Approved(id, code) ==
    [BaseReq EXCEPT !.event_type = "approval_instance", !.event_id = id,
                    !.status = "APPROVED", !.instance_code = code]

\* The deliveries of Spec: every request passes steps 1-3.
Requests ==
    { Approved("e1", "i1"),
      Approved("e2", "i1"),
      Approved("e3", "i2"),
      Approved("e4", "i3"),
      [Approved("e5", "i1") EXCEPT !.event_type = "approval_task"],
      [Approved("e6", "") EXCEPT !.approval_code = "i1"],
      [Approved("e7", "i1") EXCEPT !.status = "REJECTED"] }

Init ==
    /\ InitStores
    /\ settings = [feishu_signing_secret |-> FALSE, email_expense |-> "",
                   email_payment_sweden_shic |-> "finance@example.com"]

Deliver == \E req \in Requests : feishu_webhook(req)

Start == \E u \in BagToSet(units) : process_approval_event(u)

\* In Spec the instances are of a routed category with one attachment
\* reference or of a category without entry.
Fetched ==
    \E u \in BagToSet(units) :
       \E result \in FetchResults({"payment_sweden_shic", "leave"}, {1}) :
          FetchDone(u, result)

Downloaded ==
    \E u \in BagToSet(units) :
       \E result \in DownloadResults(u), send_raised \in BOOLEAN :
          DownloadDone(u, result, send_raised)

Next == Deliver \/ Start \/ Fetched \/ Downloaded

Spec == Init /\ [][Next]_vars

(***************************************************************************)
(* SpecStore: the two dedup store functions called directly, any ids in    *)
(* any order, from the empty store.                                        *)
(***************************************************************************)
StoreCall ==
    \/ \E id \in StoreIds : SeenEvent(id)
    \/ \E code \in StoreCodes : MarkNewInstance(code)

SpecStore == Init /\ [][StoreCall]_vars

(***************************************************************************)
(* SpecGate: the admission of one request of any shape.  The deliveries    *)
(* before the last are seeds that fill the two stores; the last one is     *)
(* drawn from the wide set GateRequests.  Background tasks run up to the   *)
(* await of the instance detail fetch.                                     *)
(***************************************************************************)
GateSeeds ==
    { Approved("e1", "i1"),
      Approved("e2", "i2"),
      [Approved("", "i1") EXCEPT !.event_type = ""] }

\* (signature, token, type, challenge) of the last request.
Envelopes ==
    [ signature : {"good", "bad", ""},
      token : {"", "tok", "wrong"},
      tc : {<<"", "">>, <<"url_verification", "abc123">>, <<"url_verification", "">>,
            <<"event_callback", "abc123">>} ]

\* (status, instance_status, object.status) of the last request.
StatusConfigs ==
    { <<"", "", "">>, <<"APPROVED", "", "">>, <<"REJECTED", "", "">>,
      <<"", "APPROVED", "">>, <<"", "", "APPROVED">>, <<"", "", "REJECTED">>,
      <<"REJECTED", "APPROVED", "">>, <<"", "REJECTED", "APPROVED">> }

\* (instance_code, approval_code, object.instance_code) of the last request.
CodeConfigs ==
    { <<"", "", "">>, <<"i1", "", "">>, <<"", "i1", "">>, <<"", "", "i1">>,
      <<"", "i2", "i1">>, <<"i3", "i1", "">> }

\* (header.event_id, uuid) of the last request.
IdConfigs == { <<"e1", "">>, <<"e3", "e1">>, <<"", "e1">>, <<"", "">> }

EventTypes == {"", "approval_instance", "approval_task"}

WithEnvelope(req, e) ==
    [req EXCEPT !.signature = e.signature, !.token = e.token,
                !.type = e.tc[1], !.challenge = e.tc[2]]

WithBody(t, id, st, c) ==
    [BaseReq EXCEPT !.event_type = t, !.event_id = id[1], !.uuid = id[2],
                    !.status = st[1], !.instance_status = st[2], !.object_status = st[3],
                    !.instance_code = c[1], !.approval_code = c[2],
                    !.object_instance_code = c[3]]

GateRequests ==
    {WithEnvelope(req, e) : req \in {Approved("e1", "i1"), Approved("e3", "i3")},
                            e \in Envelopes}
      \cup {[Approved("e3", "i3") EXCEPT !.json_ok = FALSE],
            [Approved("e3", "i3") EXCEPT !.json_ok = FALSE, !.signature = "bad"],
            [Approved("e3", "i3") EXCEPT !.timestamp = FALSE],
            [Approved("e3", "i3") EXCEPT !.nonce = FALSE]}
      \cup {WithBody(t, id, st, c) : t \in EventTypes, id \in IdConfigs,
                                     st \in StatusConfigs, c \in CodeConfigs}

InitGate ==
    /\ InitStores
    /\ settings \in [feishu_signing_secret : BOOLEAN, email_expense : {""},
                     email_payment_sweden_shic : {"finance@example.com"}]

GateDeliver ==
    \E req \in (IF deliveries + 1 < MaxDeliveries THEN GateSeeds ELSE GateRequests) :
       feishu_webhook(req)

NextGate == GateDeliver \/ Start

SpecGate == InitGate /\ [][NextGate]_vars

(***************************************************************************)
(* SpecOrch: the orchestrator over every answer of its collaborators.      *)
(* Three approved events of three instances; the expense entry of the      *)
(* routing table is blank or set; an instance is of any category and its   *)
(* form holds no attachment reference or two.                              *)
(***************************************************************************)
OrchRequests == { Approved("e1", "i1"), Approved("e3", "i2"), Approved("e4", "i3") }

InitOrch ==
    /\ InitStores
    /\ settings \in [feishu_signing_secret : {FALSE},
                     email_expense : {"", "expense@example.com"},
                     email_payment_sweden_shic : {"finance@example.com"}]

OrchDeliver == \E req \in OrchRequests : feishu_webhook(req)

OrchFetched ==
    \E u \in BagToSet(units) :
       \E result \in FetchResults(ApprovalNames, {0, 2}) : FetchDone(u, result)

NextOrch == OrchDeliver \/ Start \/ OrchFetched \/ Downloaded

SpecOrch == InitOrch /\ [][NextOrch]_vars

(***************************************************************************)
(* SpecFallback: deliveries of approval-instance events of instance i1     *)
(* that carry neither header.event_id nor uuid, with the status at any of  *)
(* its locations and the code at event.instance_code or at                 *)
(* event.object.instance_code, in any order.                               *)
(***************************************************************************)
FallbackRequests ==
    {WithBody("approval_instance", <<"", "">>, st, c) :
        st \in StatusConfigs, c \in {<<"i1", "", "">>, <<"", "", "i1">>}}

FallbackDeliver == \E req \in FallbackRequests : feishu_webhook(req)

NextFallback == FallbackDeliver \/ Start

SpecFallback == Init /\ [][NextFallback]_vars

(***************************************************************************)
(* SpecReject: deliveries of the event e1 under every envelope, rejected   *)
(* ones among them, and of a second event, in any order, with the          *)
(* signature check on or off; the background tasks run to their end.       *)
(***************************************************************************)
RejectRequests ==
    {WithEnvelope(Approved("e1", "i1"), e) :
        e \in [signature : {"good", "bad", ""}, token : {"", "tok", "wrong"},
               tc : {<<"", "">>}]}
      \cup {[Approved("e1", "i1") EXCEPT !.json_ok = FALSE],
            [Approved("e1", "i1") EXCEPT !.timestamp = FALSE],
            [Approved("e1", "i1") EXCEPT !.nonce = FALSE],
            Approved("e3", "i2")}

RejectDeliver == \E req \in RejectRequests : feishu_webhook(req)

NextReject == RejectDeliver \/ Start \/ Fetched \/ Downloaded

SpecReject == InitGate /\ [][NextReject]_vars

(***************************************************************************)
(* SpecForm: the form pass over every form of at most MaxFields fields     *)
(* drawn from FormFields, for an instance with a serial number, with an    *)
(* empty one and without one.                                              *)
(***************************************************************************)
NoExt == [kind |-> "none", currency |-> "", items |-> <<>>]

Field(name, type, value) ==
    [name |-> name, type |-> type, value |-> value, ext |-> NoExt, rows |-> <<>>]

Cell(name, type, value) == [name |-> name, type |-> type, value |-> value]

Item(type, value, sumItems) == [type |-> type, value |-> value, sumItems |-> sumItems]

FieldList(items, rows) ==
    [Field("expense_items", "fieldList", "") EXCEPT
        !.ext = [kind |-> "list", currency |-> "", items |-> items], !.rows = rows]

TitleBlank == Field("title_name", "input", "  ")

TitleReason == Field("payment_reason", "textarea", " Q1 travel ")

TitleName == Field("title_name", "input", "Office")

AmountEUR ==
    [Field("amount", "amount", "250") EXCEPT
        !.ext = [kind |-> "dict", currency |-> "EUR", items |-> <<>>]]

AmountNoExt == Field("payment_amount", "amount", "75")

\* Sums that parse, after an item of another type; two line items.
ListSums ==
    FieldList(<<Item("text", "n/a", ""), Item("amount", "100", SumsSEK)>>,
              << <<Cell("expense_content", "input", "hotel"),
                   Cell("expense_date", "input", "May")>>,
                 <<Cell("expense_content", "input", " taxi ")>> >>)

\* Sums that do not parse, before a second amount item; a blank line item.
ListBadJson ==
    FieldList(<<Item("amount", "300", BadJson), Item("amount", "9", SumsSEK)>>,
              << <<Cell("expense_content", "input", "  ")>> >>)

\* An amount item with the empty sumItems; no rows.
ListNoSums == FieldList(<<Item("amount", "300", "")>>, <<>>)

\* Sums in two currencies; a description cell of another type, then one of
\* type input.
ListTwoSums ==
    FieldList(<<Item("amount", "120", SumsTwo)>>,
              << <<Cell("expense_content", "textarea", "memo")>>,
                 <<Cell("expense_content", "input", "lunch")>> >>)

\* A fieldList whose ext is a dict; one line item.
ListExtDict ==
    [FieldList(<<>>, << <<Cell("expense_content", "input", "train")>> >>) EXCEPT
        !.ext = [kind |-> "dict", currency |-> "", items |-> <<>>]]

FormFields ==
    { TitleBlank, TitleReason, TitleName, AmountEUR, AmountNoExt,
      ListSums, ListBadJson, ListNoSums, ListTwoSums, ListExtDict }

Forms == UNION {[1..n -> FormFields] : n \in 0..MaxFields}

SerialNumbers == { NoSerial, [present |-> TRUE, value |-> ""],
                   [present |-> TRUE, value |-> "SN-1"] }

InitForm ==
    /\ EmptyState
    /\ settings = [feishu_signing_secret |-> FALSE, email_expense |-> "",
                   email_payment_sweden_shic |-> "finance@example.com"]
    /\ \E form \in Forms, serial_number \in SerialNumbers :
          extraction = StartScan(form, serial_number)

NextForm == ScanField \/ FinishScan

SpecForm == InitForm /\ [][NextForm]_vars

(***************************************************************************)
(* Claims.                                                                 *)
(***************************************************************************)
\* Number of get_approval_instance calls made for instance `code`.
FetchCount(code) ==
    BagCardinality([f \in {x \in BagToSet(fetches) : x.code = code} |-> fetches[f]])

\* Number of emails sent by background tasks of event id `id`.
EmailCount(id) ==
    BagCardinality([m \in {x \in BagToSet(emails) : x.event_id = id} |-> emails[m]])

\* The request passes steps 1 and 2, read off its fields.
PassesAuth(req) ==
    /\ req.json_ok
    /\ settings.feishu_signing_secret =>
          (req.timestamp /\ req.nonce /\ req.signature = "good")
    /\ req.token \in {"", "tok"}

\* The effective status of the event, its three locations in precedence.
EffectiveStatus(req) ==
    IF req.status # "" THEN req.status
    ELSE IF req.instance_status # "" THEN req.instance_status
    ELSE req.object_status

\* C1: of the deliveries that carry the same approved instance code, at
\* most one background task goes past the instance check-and-mark into the
\* instance detail fetch (as long as no cleanup evicted the code).
C1_AtMostOneUnitPerInstance ==
    \A f \in BagToSet(fetches) :
       f.code \notin evicted_instances => FetchCount(f.code) <= 1

\* C2: a delivery whose event id is already in the event set is
\* acknowledged {"ok": true}, changes no store and schedules no background
\* task; and the background tasks of one event id send at most one email
\* (while no cleanup evicted that id).
C2_ReplayIsDropped ==
    /\ [](\A m \in BagToSet(emails) :
             m.event_id \notin evicted_events => EmailCount(m.event_id) <= 1)
    /\ [][(/\ deliveries' # deliveries
           /\ PassesAuth(last_req')
           /\ ~(last_req'.type = "url_verification" /\ last_req'.challenge # "")
           /\ get_event_id(last_req') \in processed_events)
          => (/\ last_resp' = [status |-> 200, kind |-> "ok", value |-> "true"]
              /\ UNCHANGED <<processed_events, processed_instances, units>>)]_vars

\* Three deliveries of the one body Approved("e1", "i1"), and its email sent.
C2_Witness ==
    /\ deliveries = 3
    /\ processed_events = {"e1"}
    /\ EmailCount("e1") = 1
    /\ last_resp.kind = "ok"

\* C3: every instance the detail fetch was called for had been marked in
\* the processed-instances set before.
C3_MarkedBeforeWork ==
    \A f \in BagToSet(fetches) : f.code \in {m.code : m \in marked_ever}

\* C4: only an approval-instance event in the approved status adds its
\* instance code to the processed-instances set.
C4_MarkOnlyRelevantApproved ==
    \A m \in marked_ever :
       /\ m.req.event_type \in {"", "approval_instance"}
       /\ EffectiveStatus(m.req) = "APPROVED"

\* C5: the instance detail fetch is called only for a request that passed
\* the signature and token checks, is no challenge, had an event id not yet
\* seen, has no event_type or an approval-instance one, has the effective
\* status APPROVED and carries an instance code.
C5_OnlyAdmittedFetch ==
    \A f \in BagToSet(fetches) :
       /\ PassesAuth(f.req)
       /\ ~(f.req.type = "url_verification" /\ f.req.challenge # "")
       /\ f.first_seen
       /\ f.req.event_type \in {"", "approval_instance"}
       /\ EffectiveStatus(f.req) = "APPROVED"
       /\ \/ f.req.instance_code # ""
          \/ f.req.approval_code # ""
          \/ f.req.object_instance_code # ""
       /\ f.code # ""

\* A request of the wide set reached the fetch with its status and its code
\* at their last locations.
C5_Witness ==
    \E f \in BagToSet(fetches) :
       /\ f.req.status = "" /\ f.req.instance_status = ""
       /\ f.req.object_status = "APPROVED"
       /\ f.req.instance_code = "" /\ f.req.approval_code = ""
       /\ f.req.object_instance_code = "i1"

\* C6: the response is 400 exactly for malformed JSON or missing signature
\* headers, 403 exactly for a signature or token mismatch, and otherwise
\* 200 with {"challenge": value} or {"ok": true}.
C6_ResponseContract ==
    deliveries > 0 =>
       LET r == last_req
           malformed ==
               \/ ~r.json_ok
               \/ /\ settings.feishu_signing_secret
                  /\ ~(r.timestamp /\ r.nonce /\ r.signature # "")
           unauthenticated ==
               /\ ~malformed
               /\ \/ settings.feishu_signing_secret /\ r.signature # "good"
                  \/ r.token \notin {"", "tok"}
       IN /\ malformed <=> last_resp.status = 400
          /\ unauthenticated <=> last_resp.status = 403
          /\ (~malformed /\ ~unauthenticated) =>
                \/ last_resp = [status |-> 200, kind |-> "ok", value |-> "true"]
                \/ last_resp = [status |-> 200, kind |-> "challenge",
                                value |-> r.challenge]

\* A request with all signature headers but a wrong token was answered 403
\* while the signature check was active.
C6_Witness ==
    /\ settings.feishu_signing_secret
    /\ last_req.signature = "good" /\ last_req.token = "wrong"
    /\ last_resp.status = 403

\* C7: a url_verification request that carries a challenge and passes steps
\* 1-2 is answered with that challenge, and neither dedup set changes nor
\* is a background task scheduled.
C7_ChallengeBypass ==
    [][(/\ deliveries' # deliveries
        /\ PassesAuth(last_req')
        /\ last_req'.type = "url_verification"
        /\ last_req'.challenge # "")
       => (/\ last_resp' = [status |-> 200, kind |-> "challenge",
                            value |-> last_req'.challenge]
           /\ UNCHANGED <<processed_events, processed_instances, units>>)]_vars

\* A challenge was echoed while the event set was full: the stores did not
\* go through a cleanup.
C7_Witness ==
    /\ last_resp = [status |-> 200, kind |-> "challenge", value |-> "abc123"]
    /\ Cardinality(processed_events) = MAX_PROCESSED_EVENTS
    /\ evicted_events = {}

\* C8: neither dedup set ever holds more than the cap, and an insertion
\* into a set that has reached the cap leaves at most KEEP_RECENT + 1.
C8_StoresBounded ==
    /\ [](/\ Cardinality(processed_events) <= MAX_PROCESSED_EVENTS
          /\ Cardinality(processed_instances) <= MAX_PROCESSED_EVENTS)
    /\ [][/\ (/\ Cardinality(processed_events) >= MAX_PROCESSED_EVENTS
              /\ processed_events' # processed_events)
             => Cardinality(processed_events') <= KEEP_RECENT + 1
          /\ (/\ Cardinality(processed_instances) >= MAX_PROCESSED_EVENTS
              /\ processed_instances' # processed_instances)
             => Cardinality(processed_instances') <= KEEP_RECENT + 1]_vars

\* Both sets went through a cleanup.
C8_Witness ==
    /\ evicted_events # {}
    /\ evicted_instances # {}
    /\ Cardinality(processed_events) = KEEP_RECENT + 1

\* C9: when a cleanup truncates the event set, the members that survive are
\* the KEEP_RECENT most recently inserted ids.
C9_SurvivorsAreMostRecent ==
    [][(/\ Cardinality(processed_events) >= MAX_PROCESSED_EVENTS
        /\ processed_events' # processed_events)
       => processed_events' \ {store_ret'.arg} = Range(recent_events)]_vars

\* C10: is_duplicate_event reports "already present" iff the id was in the
\* set before the call, the id is in the set after the call, and no id
\* leaves the set except through the cleanup of a set at the cap: of the
\* callers with one id, the first alone observes first-seen.
C10_SeenEventContract ==
    [][(deliveries' # deliveries /\ store_ret'.op = "is_duplicate_event")
       => (/\ store_ret'.ret = (store_ret'.arg \in processed_events)
           /\ store_ret'.arg \in processed_events'
           /\ \/ processed_events \subseteq processed_events'
              \/ Cardinality(processed_events) >= MAX_PROCESSED_EVENTS)]_vars

\* A second call with an id observed "already present".
C10_Witness ==
    /\ store_ret.op = "is_duplicate_event"
    /\ store_ret.ret
    /\ store_ret.arg \in processed_events

\* The RoutingTable of the specification: the destination of a category,
\* "" when the category has no entry or its entry is blank.
RoutingTable(approval_name) ==
    IF approval_name = "expense_reimbursement" THEN settings.email_expense
    ELSE IF approval_name = "payment_sweden_shic" THEN settings.email_payment_sweden_shic
    ELSE ""

\* C11: an email is sent only for an instance whose category has a
\* non-blank destination, whose form gave at least one attachment reference
\* and of which at least one attachment was downloaded; a task whose steps
\* all returned ends in a no-op exactly when one of the three fails, a task
\* that ended in an exception had passed every condition it had reached, a
\* no-op sends no email, and the no-op of an unroutable category ends the
\* task at the fetch result, before the download is awaited.
C11_EmailNecessaryConditions ==
    /\ [](\A m \in BagToSet(emails) :
             /\ RoutingTable(m.approval_name) # ""
             /\ m.to = RoutingTable(m.approval_name)
             /\ m.refs >= 1
             /\ m.attachments >= 1)
    /\ [](\A r \in finished :
             /\ r.outcome \in {"noop", "sent"} =>
                   (r.outcome = "noop" <=> \/ RoutingTable(r.approval_name) = ""
                                           \/ r.refs = 0
                                           \/ r.downloaded = 0)
             /\ r.outcome = "failed_download" =>
                   RoutingTable(r.approval_name) # "" /\ r.refs >= 1
             /\ r.outcome = "failed_send" =>
                   RoutingTable(r.approval_name) # "" /\ r.refs >= 1 /\ r.downloaded >= 1)
    /\ [][\A r \in finished' \ finished :
             r.outcome = "noop" =>
                /\ emails' = emails
                /\ RoutingTable(r.approval_name) = "" =>
                      \E u \in BagToSet(units) :
                         u.pc = "fetching" /\ units' = units (-) SetToBag({u})]_vars

\* One task ended in the no-op of a category without entry, one in the
\* no-op of a download that gave nothing, and one sent its email.
C11_Witness ==
    /\ \E r \in finished : r.outcome = "noop" /\ r.approval_name = "leave"
    /\ \E r \in finished : r.outcome = "noop" /\ r.refs = 2 /\ r.downloaded = 0
    /\ \E m \in BagToSet(emails) : m.approval_name = "expense_reimbursement"

Failures == {"failed_fetch", "failed_download", "failed_send"}

\* C12: when the instance detail fetch, the attachment download or the
\* email send raises, the step ends the background task: the task leaves
\* the bag of running tasks and every other task stays as it was, no fetch
\* is issued again, no email is recorded, the response already given and
\* both dedup sets are untouched; and no email is ever sent for the event
\* of a failed task (while no cleanup evicted its id).
C12_CollaboratorFailure ==
    /\ [][\A r \in finished' \ finished :
             r.outcome \in Failures =>
                /\ \E u \in BagToSet(units) :
                      /\ get_event_id(u.req) = r.event_id
                      /\ units' = units (-) SetToBag({u})
                /\ UNCHANGED <<emails, fetches, last_req, last_resp, processed_events,
                               processed_instances>>]_vars
    /\ [](\A r \in finished :
             (r.outcome \in Failures /\ r.event_id \notin evicted_events)
                => EmailCount(r.event_id) = 0)

\* Three tasks ended in an exception, one at each of the three awaits, after
\* their deliveries were acknowledged.
C12_Witness ==
    /\ {r.outcome : r \in finished} = Failures
    /\ units = EmptyBag
    /\ emails = EmptyBag
    /\ last_resp = [status |-> 200, kind |-> "ok", value |-> "true"]

\* The line-item descriptions of a form: the non-empty trimmed values of
\* the description cells of type input in its fieldList fields, field by
\* field, row by row.
RECURSIVE LineItems(_)
LineItems(form) ==
    IF form = <<>> THEN <<>>
    ELSE LET field == Head(form)
             cells == IF field.type = "fieldList" THEN cells_of(field.rows) ELSE <<>>
             found == SelectSeq(cells, LAMBDA c : /\ c.name = "expense_content"
                                                  /\ c.type = "input"
                                                  /\ strip(c.value) # "")
         IN  [i \in 1..Len(found) |-> strip(found[i].value)] \o LineItems(Tail(form))

\* The recognized title fields of a form whose trimmed value is not empty.
TitleFields(form) ==
    SelectSeq(form, LAMBDA f : /\ f.name \in {"title_name", "payment_reason"}
                               /\ f.type \in {"input", "textarea"}
                               /\ strip(f.value) # "")

\* C13: after the pass, the title is the "-"-join of the line-item
\* descriptions when there is one, whatever the title fields hold;
\* otherwise the trimmed value of the first recognized title field that set
\* the (still empty) title to a non-empty value; otherwise the serial
\* number of the instance, or its instance code when it has none.
C13_TitleRule ==
    extraction.done =>
       extraction.approval_title =
          IF LineItems(extraction.form) # <<>>
          THEN join("-", LineItems(extraction.form))
          ELSE IF TitleFields(extraction.form) # <<>>
          THEN strip(TitleFields(extraction.form)[1].value)
          ELSE IF extraction.serial_number.present
          THEN extraction.serial_number.value
          ELSE extraction.instance_code

\* The form of the title precedence example: a title field with a value
\* and two line items; the title is made of the line items.
C13_Witness ==
    /\ extraction.done
    /\ extraction.form = <<TitleReason, ListSums>>
    /\ extraction.approval_title = "hotel-taxi"

\* The items of type amount of an ext array.
AmountItems(field) ==
    IF field.ext.kind = "list"
    THEN SelectSeq(field.ext.items, LAMBDA item : item.type = "amount")
    ELSE <<>>

\* C14: the iteration of the pass on a fieldList appends the field's
\* line-item descriptions to the contents whatever the amount is; it
\* leaves a non-empty amount unchanged; and, reached with the empty amount
\* and an item of type amount in its ext array, it sets the amount to the
\* ", "-join of "{value} {currency}" over the entries of that item's
\* sumItems, or to the item's raw value when sumItems cannot be parsed.
C14_FieldListAmount ==
    [][(/\ extraction'.pos = extraction.pos + 1
        /\ extraction.form[extraction.pos].type = "fieldList")
       => LET field == extraction.form[extraction.pos]
              item == AmountItems(field)[1]
              parsed == json_loads(item.sumItems)
          IN  /\ extraction'.expense_contents =
                    extraction.expense_contents \o LineItems(<<field>>)
              /\ extraction.approval_amount # "" =>
                    extraction'.approval_amount = extraction.approval_amount
              /\ (extraction.approval_amount = "" /\ AmountItems(field) # <<>>) =>
                    extraction'.approval_amount =
                       IF parsed.ok
                       THEN join(", ", [i \in 1..Len(parsed.sums) |->
                                          parsed.sums[i].value \o " " \o parsed.sums[i].currency])
                       ELSE item.value]_vars

SignatureFails(req) ==
    /\ settings.feishu_signing_secret
    /\ ~(req.timestamp /\ req.nonce /\ req.signature = "good")

SignatureStatus(req) ==
    IF req.timestamp /\ req.nonce /\ req.signature # "" THEN 403 ELSE 400

TokenFails(req) == req.token \notin {"", "tok"}

CarriesChallenge(req) == req.type = "url_verification" /\ req.challenge # ""

\* The outcome of the checks that follow the signature check, in their order.
AfterSignature(req, resp) ==
    IF TokenFails(req) THEN resp.status = 403
    ELSE IF CarriesChallenge(req)
    THEN resp = [status |-> 200, kind |-> "challenge", value |-> req.challenge]
    ELSE resp = [status |-> 200, kind |-> "ok", value |-> "true"]

\* C15 as stated: the signature check is the first step applied to any
\* request, so every request whose signature check fails is answered by
\* that check; then come the token check, the challenge handshake and the
\* event-id dedup.
C15_SignatureCheckIsFirst ==
    deliveries > 0 =>
       IF SignatureFails(last_req) THEN last_resp.status = SignatureStatus(last_req)
       ELSE IF ~last_req.json_ok THEN last_resp.status = 400
       ELSE AfterSignature(last_req, last_resp)

\* C15, amended: the body is parsed first (400 when it is not JSON); then
\* the signature check, the token check, the challenge handshake and the
\* event-id dedup run in this order, each ending the request: a request
\* rejected or answered with its challenge leaves the event set and the
\* scheduled tasks unchanged, every other request has its event id in the
\* event set afterwards.
C15_AdmissionOrder ==
    /\ [](deliveries > 0 =>
            IF ~last_req.json_ok THEN last_resp.status = 400
            ELSE IF SignatureFails(last_req)
            THEN last_resp.status = SignatureStatus(last_req)
            ELSE AfterSignature(last_req, last_resp))
    /\ [][deliveries' # deliveries =>
            IF \/ ~last_req'.json_ok
               \/ SignatureFails(last_req')
               \/ TokenFails(last_req')
               \/ CarriesChallenge(last_req')
            THEN UNCHANGED <<processed_events, units>>
            ELSE get_event_id(last_req') \in processed_events']_vars

\* A url_verification request that carries a challenge and a good signature
\* was rejected for its token, with the signature check active.
C15_Witness ==
    /\ settings.feishu_signing_secret
    /\ last_req.signature = "good" /\ last_req.token = "wrong"
    /\ last_req.type = "url_verification" /\ last_req.challenge = "abc123"
    /\ last_resp = [status |-> 403, kind |-> "error", value |-> ""]

\* C16: every call of the instance detail fetch is for the instance code
\* that the background task of the same event checked and marked in the
\* processed-instances set.
C16_MarkedCodeIsFetchedCode ==
    \A f \in BagToSet(fetches) :
       \E m \in marked_ever : m.req = f.req /\ m.code = f.code

\* The event carries neither header.event_id nor uuid.
NoOwnId(req) == req.event_id = "" /\ req.uuid = ""

\* The instance the event concerns: its code at the three locations.
InstanceOf(req) ==
    IF req.instance_code # "" THEN req.instance_code
    ELSE IF req.approval_code # "" THEN req.approval_code
    ELSE req.object_instance_code

\* C17: an event without id of its own that is scheduled and the latest
\* admitted event without id of its own, when they concern the same
\* instance and differ in effective status, have different derived event
\* ids; so the latest one, when APPROVED, is not dropped as a duplicate of
\* the other.
C17_FallbackIdsSeparateStatuses ==
    \A u \in BagToSet(units) :
       (/\ PassesAuth(last_req) /\ ~CarriesChallenge(last_req)
        /\ NoOwnId(u.req) /\ NoOwnId(last_req)
        /\ InstanceOf(u.req) # ""
        /\ InstanceOf(u.req) = InstanceOf(last_req)
        /\ EffectiveStatus(u.req) # EffectiveStatus(last_req))
       => get_event_id(u.req) # get_event_id(last_req)

\* The ids of the approval-instance events of Requests with the effective
\* status APPROVED that concern instance `code`.
ApprovedInstanceEvents(code) ==
    {get_event_id(q) : q \in {x \in Requests : /\ x.event_type = "approval_instance"
                                               /\ EffectiveStatus(x) = "APPROVED"
                                               /\ InstanceOf(x) = code}}

\* Number of emails sent for instance `code`.
InstanceEmailCount(code) ==
    BagCardinality([m \in {x \in BagToSet(emails) : x.code = code} |-> emails[m]])

\* C18, for a run that has ended: when no cleanup evicted anything and the
\* only approved approval-instance event delivered so far for an instance
\* has had its background task return, without a collaborator failure and
\* without the no-op of an unroutable category or of missing attachments,
\* then that task sent the email, and it is the one email for the instance,
\* whatever other events were delivered before.
C18_FirstApprovedIsDelivered ==
    \A r \in finished :
       \A q \in {x \in Requests : get_event_id(x) = r.event_id} :
          (/\ evicted_events = {} /\ evicted_instances = {}
           /\ q.event_type = "approval_instance"
           /\ EffectiveStatus(q) = "APPROVED"
           /\ InstanceOf(q) # ""
           /\ processed_events \cap ApprovedInstanceEvents(InstanceOf(q)) = {r.event_id}
           /\ r.outcome \notin Failures \cup {"noop"})
          => (r.outcome = "sent" /\ InstanceEmailCount(InstanceOf(q)) = 1)

\* C19: the step in which a background task ends in an email, a no-op or a
\* collaborator failure leaves the processed-instances set as it is, and a
\* code leaves that set only through the cleanup of a set at the cap; so,
\* while no cleanup evicted anything, an instance whose marking task failed
\* or ended in a no-op is fetched by no other task and gets no email.
C19_MarkSurvivesOutcome ==
    /\ [][(\E r \in finished' \ finished : r.outcome \in Failures \cup {"noop", "sent"})
          => processed_instances' = processed_instances]_vars
    /\ [][\/ processed_instances \subseteq processed_instances'
          \/ Cardinality(processed_instances) >= MAX_PROCESSED_EVENTS]_vars
    /\ []((evicted_events = {} /\ evicted_instances = {}) =>
            \A m \in marked_ever, r \in finished :
               (get_event_id(m.req) = r.event_id /\ r.outcome \in Failures \cup {"noop"})
               => /\ InstanceEmailCount(m.code) = 0
                  /\ \A f \in BagToSet(fetches) : f.code = m.code => f.req = m.req)

\* C20: a request answered 400 or 403 changes neither dedup set and
\* schedules no background task; an event id is in the event set only when
\* a delivery that passed the checks scheduled a task for it, so the first
\* valid delivery of an id finds it absent and is scheduled, whatever
\* rejected deliveries carried the id before.
C20_RejectedHasNoEffect ==
    /\ [][(deliveries' # deliveries /\ last_resp'.status \in {400, 403})
          => UNCHANGED <<processed_events, processed_instances, evicted_events,
                         evicted_instances, units, finished, fetches, emails>>]_vars
    /\ [](\A id \in processed_events :
             \/ \E u \in BagToSet(units) : get_event_id(u.req) = id /\ PassesAuth(u.req)
             \/ \E r \in finished : r.event_id = id)
    /\ [][(/\ deliveries' # deliveries
           /\ PassesAuth(last_req')
           /\ get_event_id(last_req') \notin processed_events)
          => (/\ last_resp' = [status |-> 200, kind |-> "ok", value |-> "true"]
              /\ \E u \in BagToSet(units') :
                    u.req = last_req' /\ u.first_seen /\ u.pc = "scheduled")]_vars

\* All three deliveries carried e1; the set holds e1 through the one task
\* that was scheduled first-seen, and the latest delivery was rejected for
\* its signature while e3's absence shows no other event was delivered.
C20_Witness ==
    /\ deliveries = MaxDeliveries
    /\ last_resp.status = 403 /\ last_req.signature = "bad"
    /\ processed_events = {"e1"}
    /\ \E u \in BagToSet(units) : u.first_seen /\ u.req.token = "tok"
    /\ finished = {}

====
